---- MODULE Spec2Model ----
(***************************************************************************)
(* Adaptive Huffman (FGK) codec of adaptive_huffman/ada_huffman.py.        *)
(*                                                                         *)
(* Bit sequences are TLA+ sequences of 0/1 in bitarray index order.  The   *)
(* host is little-endian (sys.byteorder == 'little'), the convention the   *)
(* specification fixes: bit k of a byte is bitarray index k.               *)
(*                                                                         *)
(* A codec instance is a record holding the fields of AdaptiveHuffman.     *)
(* all_nodes is the list self.all_nodes; a node is referred to by its      *)
(* index in that list, 0 standing for None.  self.tree is always index 1.  *)
(***************************************************************************)
EXTENDS Integers, Sequences, FiniteSets, TLC

VARIABLES
    byte_seq,        \* the caller's input x handed to the encoder
    alphabet_range,  \* <<L, H>>
    dpcm,            \* BOOLEAN
    pc,              \* position of the driver
    encoder,         \* the encoding codec instance
    pos,             \* number of symbols the encode loop has consumed
    code,            \* the encoder's bitarray `code`
    stream,          \* the bytes handed to the decoder
    truncated,       \* TRUE when the last byte of the stream was removed
    decoder,         \* the decoding codec instance
    bit_seq,         \* the decoder's bitarray
    idx,             \* the decoder's self.idx
    out,             \* the decoder's list `code`
    result,          \* what decode() returned
    fx,              \* state of the fixed-code specification
    dp               \* state of the DPCM specification

vars == <<byte_seq, alphabet_range, dpcm, pc, encoder, pos, code, stream,
          truncated, decoder, bit_seq, idx, out, result, fx, dp>>

(***************************************************************************)
(* Bounds of the model.                                                    *)
(***************************************************************************)
MaxLen == 4        \* longest input sequence of the codec specification
MaxTail == 2       \* most bits following a fixed code
MaxDpcmLen == 3    \* longest sequence of the DPCM specification

----------------------------------------------------------------------------
(* Arithmetic and bit helpers *)

Min(a, b) == IF a <= b THEN a ELSE b

Abs(a) == IF a < 0 THEN 0 - a ELSE a

RECURSIVE Pow2(_)
Pow2(n) == IF n <= 0 THEN 1 ELSE 2 * Pow2(n - 1)

\* int.bit_length() of a non-negative integer
RECURSIVE bit_length(_)
bit_length(x) == IF x <= 0 THEN 0 ELSE 1 + bit_length(x \div 2)

\* bitarray slice s[a:b] with 0-based a and b, clamped as Python clamps
Slice(s, a, b) ==
    LET lo == Min(a, Len(s))
        hi == Min(b, Len(s))
    IN  IF hi <= lo THEN <<>> ELSE SubSeq(s, lo + 1, hi)

\* value of a bit sequence whose index 0 is the least significant bit
RECURSIVE LsbValue(_)
LsbValue(s) == IF s = <<>> THEN 0 ELSE Head(s) + 2 * LsbValue(Tail(s))

\* int(bits.to01(), 2): index 0 is the most significant bit
RECURSIVE MsbValue(_)
MsbValue(s) ==
    IF s = <<>> THEN 0
    ELSE Head(s) * Pow2(Len(s) - 1) + MsbValue(Tail(s))

\* the 8 bits of one byte in a little-endian bitarray
ByteBits(b) == [k \in 1..8 |-> (b \div Pow2(k - 1)) % 2]

\* bitarray.frombytes on an empty little-endian bitarray
RECURSIVE frombytes(_)
frombytes(bs) ==
    IF bs = <<>> THEN <<>> ELSE ByteBits(Head(bs)) \o frombytes(Tail(bs))

\* bitarray.bits2bytes
bits2bytes(n) == (n + 7) \div 8

\* bitarray.tobytes / tofile: zero-fill to a byte boundary, then pack
tobytes(s) ==
    LET n == bits2bytes(Len(s))
        padded == s \o [k \in 1..(8 * n - Len(s)) |-> 0]
    IN  [j \in 1..n |-> LsbValue(SubSeq(padded, 8 * (j - 1) + 1, 8 * j))]

\* int2bytes(x) for x >= 0: the little-endian bytes of x, at least one
int2bytes(x) ==
    LET n == IF x = 0 THEN 1 ELSE (bit_length(x) + 7) \div 8
    IN  [j \in 1..n |-> (x \div Pow2(8 * (j - 1))) % 256]

----------------------------------------------------------------------------
(* Node data *)

NYT == [nyt |-> TRUE]
None == [none |-> TRUE]
\* the encoder stores a symbol's fixed code as node data, the decoder the symbol
BitsData(s) == [bits |-> s]
IntData(v) == [dec |-> v]

----------------------------------------------------------------------------
(* Tree *)

\* Tree(weight, num, data): a node with no links
Tree(weight, num, data) ==
    [weight |-> weight, num |-> num, data |-> data,
     left |-> 0, right |-> 0, parent |-> 0]

\* AdaptiveHuffman.__init__
NewCodec(seq, range, filter) ==
    LET first == Min(range[1], range[2])
        alphabet_size == Abs(range[1] - range[2]) + 1
        exp == bit_length(alphabet_size) - 1
        num == alphabet_size * 2 - 1
    IN  [byte_seq |-> seq,
         dpcm |-> filter,
         alphabet_first_num |-> first,
         exp |-> exp,
         rem |-> alphabet_size - Pow2(exp),
         current_node_num |-> num,
         all_nodes |-> <<Tree(0, num, NYT)>>,
         nyt |-> 1]

IsLeaf(n) == n.left = 0 /\ n.right = 0

\* the 0/1 link sequence from the root down to node i, following parent links
RECURSIVE PathTo(_, _, _)
PathTo(nodes, i, fuel) ==
    LET p == nodes[i].parent
    IN  IF p = 0 \/ fuel = 0 THEN <<>>
        ELSE PathTo(nodes, p, fuel - 1) \o <<IF nodes[p].right = i THEN 1 ELSE 0>>

\* Tree.search(target): the path of the leaf holding target, else of the NYT leaf
search(c, target) ==
    LET nodes == c.all_nodes
        hits == {i \in DOMAIN nodes : nodes[i].data = target}
    IN  IF hits # {}
        THEN [first_appearance |-> FALSE,
              code |-> PathTo(nodes, CHOOSE i \in hits : \A j \in hits : i <= j,
                              Len(nodes))]
        ELSE [first_appearance |-> TRUE,
              code |-> PathTo(nodes, c.nyt, Len(nodes))]

\* the node taking the place of i when x and y change places
Swapped(i, x, y) == IF i = x THEN y ELSE IF i = y THEN x ELSE i

\* exchange(x, y): x and y swap positions (the child slots of their parents
\* and their parent links); the numbers stay with the positions. SubSeq makes
\* the result a sequence value, which Append and EXCEPT then extend faithfully.
exchange(nodes, x, y) ==
    SubSeq([i \in DOMAIN nodes |->
        LET n == nodes[i]
            relinked == [n EXCEPT !.left = Swapped(n.left, x, y),
                                  !.right = Swapped(n.right, x, y)]
        IN  IF i = x
            THEN [relinked EXCEPT !.parent = nodes[y].parent, !.num = nodes[y].num]
            ELSE IF i = y
            THEN [relinked EXCEPT !.parent = nodes[x].parent, !.num = nodes[x].num]
            ELSE relinked], 1, Len(nodes))

----------------------------------------------------------------------------
(* update *)

\* find_node_data: the first node of all_nodes holding data (0: KeyError)
find_node_data(nodes, data) ==
    LET hits == {i \in DOMAIN nodes : nodes[i].data = data}
    IN  IF hits = {} THEN 0 ELSE CHOOSE i \in hits : \A j \in hits : i <= j

\* max(..., key=num) over the nodes of weight w: the first one of largest num
node_max_num_in_block(nodes, w) ==
    LET block == {i \in DOMAIN nodes : nodes[i].weight = w}
        top == {i \in block : \A j \in block : nodes[j].num <= nodes[i].num}
    IN  CHOOSE i \in top : \A j \in top : i <= j

\* the exchange test of one pass of the loop at current_node
NeedsExchange(nodes, current_node) ==
    LET b == node_max_num_in_block(nodes, nodes[current_node].weight)
    IN  current_node # b /\ b # nodes[current_node].parent

\* the node whose weight a pass of the loop increments
NodeAfterExchange(current_node, b) == b

\* one pass of the loop with first_appearance False at current_node: the
\* exchange with the block's node of largest number, then the increment
WalkPass(nodes, current_node) ==
    LET b == node_max_num_in_block(nodes, nodes[current_node].weight)
        swap == NeedsExchange(nodes, current_node)
        nodes1 == IF swap THEN exchange(nodes, current_node, b) ELSE nodes
        cur == IF swap THEN NodeAfterExchange(current_node, b) ELSE current_node
    IN  [nodes |-> [nodes1 EXCEPT ![cur].weight = @ + 1],
         node |-> cur, exchanged |-> swap, block_max |-> b]

\* variant of Walk that stops below the parentless node, leaving its weight
RECURSIVE Walk_below_root(_, _, _)
Walk_below_root(nodes, current_node, fuel) ==
    IF nodes[current_node].parent = 0 THEN nodes
    ELSE LET pass == WalkPass(nodes, current_node)
         IN  IF fuel = 0 THEN pass.nodes
             ELSE Walk_below_root(pass.nodes, pass.nodes[pass.node].parent,
                                  fuel - 1)

\* the passes of the loop with first_appearance False, from current_node up
RECURSIVE Walk(_, _, _)
Walk(nodes, current_node, fuel) ==
    LET pass == WalkPass(nodes, current_node)
    IN  IF pass.nodes[pass.node].parent = 0 \/ fuel = 0 THEN pass.nodes
        ELSE Walk(pass.nodes, pass.nodes[pass.node].parent, fuel - 1)

\* the tree and current_node at the start of each pass Walk makes
RECURSIVE WalkPasses(_, _, _)
WalkPasses(nodes, current_node, fuel) ==
    LET pass == WalkPass(nodes, current_node)
        here == <<[nodes |-> nodes, node |-> current_node]>>
    IN  IF pass.nodes[pass.node].parent = 0 \/ fuel = 0 THEN here
        ELSE here \o WalkPasses(pass.nodes, pass.nodes[pass.node].parent, fuel - 1)

\* variant of Split that hangs the new symbol on the left and the new NYT on the right
Split_symbol_left(c, data) ==
    LET q == c.nyt
        n == Len(c.all_nodes)
        new_external == [Tree(1, c.current_node_num - 1, data) EXCEPT !.parent = q]
        new_nyt == [Tree(0, c.current_node_num - 2, NYT) EXCEPT !.parent = q]
        grown == Append(Append(c.all_nodes, new_external), new_nyt)
    IN  [c EXCEPT !.current_node_num = @ - 2,
                  !.all_nodes = [grown EXCEPT ![q].left = n + 1,
                                              ![q].right = n + 2,
                                              ![q].weight = @ + 1,
                                              ![q].data = None],
                  !.nyt = n + 2]

\* variant of Split whose new symbol leaf starts at weight 0
Split_weightless_leaf(c, data) ==
    LET q == c.nyt
        n == Len(c.all_nodes)
        new_external == [Tree(0, c.current_node_num - 1, data) EXCEPT !.parent = q]
        new_nyt == [Tree(0, c.current_node_num - 2, NYT) EXCEPT !.parent = q]
        grown == Append(Append(c.all_nodes, new_external), new_nyt)
    IN  [c EXCEPT !.current_node_num = @ - 2,
                  !.all_nodes = [grown EXCEPT ![q].right = n + 1,
                                              ![q].left = n + 2,
                                              ![q].weight = @ + 1,
                                              ![q].data = None],
                  !.nyt = n + 2]

\* variant of Split that leaves the codec's nyt field on the node it split
Split_keeps_nyt(c, data) ==
    LET q == c.nyt
        n == Len(c.all_nodes)
        new_external == [Tree(1, c.current_node_num - 1, data) EXCEPT !.parent = q]
        new_nyt == [Tree(0, c.current_node_num - 2, NYT) EXCEPT !.parent = q]
        grown == Append(Append(c.all_nodes, new_external), new_nyt)
    IN  [c EXCEPT !.current_node_num = @ - 2,
                  !.all_nodes = [grown EXCEPT ![q].right = n + 1,
                                              ![q].left = n + 2,
                                              ![q].weight = @ + 1,
                                              ![q].data = None]]

\* the first pass of the loop when first_appearance: the NYT leaf is split
Split(c, data) ==
    LET q == c.nyt
        n == Len(c.all_nodes)
        new_external == [Tree(1, c.current_node_num - 1, data) EXCEPT !.parent = q]
        new_nyt == [Tree(0, c.current_node_num - 2, NYT) EXCEPT !.parent = q]
        grown == Append(Append(c.all_nodes, new_external), new_nyt)
    IN  [c EXCEPT !.current_node_num = @ - 2,
                  !.all_nodes = [grown EXCEPT ![q].right = n + 1,
                                              ![q].left = n + 2,
                                              ![q].weight = @ + 1,
                                              ![q].data = None],
                  !.nyt = n + 2]

\* bound on the passes of one update, reached only by a walk that never ends
\* (a walk from a node of an n-node tree passes each node at most once)
WalkFuel(nodes) == 2 * Len(nodes) + 2

\* AdaptiveHuffman.update(data, first_appearance)
update(c, data, first_appearance) ==
    IF first_appearance
    THEN LET s == Split(c, data)
             q == c.nyt
             up == s.all_nodes[q].parent
         IN  IF up = 0 THEN s
             ELSE [s EXCEPT !.all_nodes = Walk(s.all_nodes, up, WalkFuel(s.all_nodes))]
    ELSE [c EXCEPT !.all_nodes =
             Walk(c.all_nodes, find_node_data(c.all_nodes, data),
                  WalkFuel(c.all_nodes))]

\* the passes with first_appearance False that update(data, first_appearance)
\* makes on codec c, each with the tree and current_node it starts from
UpdatePasses(c, data, first_appearance) ==
    IF first_appearance
    THEN LET s == Split(c, data)
             up == s.all_nodes[c.nyt].parent
         IN  IF up = 0 THEN <<>>
             ELSE WalkPasses(s.all_nodes, up, WalkFuel(s.all_nodes))
    ELSE WalkPasses(c.all_nodes, find_node_data(c.all_nodes, data),
                    WalkFuel(c.all_nodes))

----------------------------------------------------------------------------
(* encode *)

\* to_fixed_code raises OverflowError in int2bytes for a negative argument
FixedCodeRaises(c, dec) ==
    LET alphabet_idx == dec - (c.alphabet_first_num - 1)
    IN  IF alphabet_idx <= 2 * c.rem THEN alphabet_idx - 1 < 0
        ELSE alphabet_idx - c.rem - 1 < 0

\* to_fixed_code(dec) on a little-endian host
to_fixed_code(c, dec) ==
    LET alphabet_idx == dec - (c.alphabet_first_num - 1)
    IN  IF alphabet_idx <= 2 * c.rem
        THEN Slice(frombytes(int2bytes(alphabet_idx - 1)), 0, c.exp + 1)
        ELSE Slice(frombytes(int2bytes(alphabet_idx - c.rem - 1)), 0, c.exp)

\* to_dpcm(seq)
to_dpcm(seq) ==
    [i \in 1..Len(seq) |-> IF i = 1 THEN seq[1] ELSE (seq[i] - seq[i - 1]) % 256]

\* variant of remaining_bits_length that leaves the 3 header bits out of the count
remaining_bits_length_without_header(n) == bits2bytes(n) * 8 - n

\* bits2bytes(n + 3) * 8 - (n + 3) for a payload of n bits
remaining_bits_length(n) == bits2bytes(n + 3) * 8 - (n + 3)

\* '{:03b}'.format(p), each character of its reverse inserted at index 0
header_bits(p) == <<(p \div 4) % 2, (p \div 2) % 2, p % 2>>

----------------------------------------------------------------------------
(* decode *)

\* variant of from_dpcm whose running sum is not masked to a byte
RECURSIVE from_dpcm_unmasked(_)
from_dpcm_unmasked(seq) ==
    IF Len(seq) <= 1 THEN seq
    ELSE LET front == from_dpcm_unmasked(SubSeq(seq, 1, Len(seq) - 1))
         IN  Append(front, front[Len(front)] + seq[Len(seq)])

\* from_dpcm(seq): itertools.accumulate with (x + y) & 0xff
RECURSIVE from_dpcm(_)
from_dpcm(seq) ==
    IF Len(seq) <= 1 THEN seq
    ELSE LET front == from_dpcm(SubSeq(seq, 1, Len(seq) - 1))
         IN  Append(front, (front[Len(front)] + seq[Len(seq)]) % 256)

\* read_bit(n): the slice taken; self.idx moves by n whatever the slice holds
read_bit(bits, i, n) == Slice(bits, i, i + n)

\* variant of del_tail that leaves the padding in the buffer
del_tail_keeps_padding(bits, p) == bits

\* del bit_seq[-remaining_bits_length:]
del_tail(bits, p) ==
    IF p = 0 THEN <<>>
    ELSE Slice(bits, 0, IF Len(bits) - p < 0 THEN 0 ELSE Len(bits) - p)

\* the descent from the root: one bit per level until a node without children;
\* read_bit(1)[0] raises IndexError when no bit is left
RECURSIVE descend(_, _, _, _)
descend(nodes, node, bits, i) ==
    IF IsLeaf(nodes[node])
    THEN [ok |-> TRUE, node |-> node, idx |-> i]
    ELSE IF read_bit(bits, i, 1) = <<>>
    THEN [ok |-> FALSE, node |-> node, idx |-> i + 1]
    ELSE descend(nodes,
                 IF read_bit(bits, i, 1)[1] = 1 THEN nodes[node].right
                 ELSE nodes[node].left,
                 bits, i + 1)

\* ord(bits.tobytes()) raises TypeError unless tobytes() is exactly one byte
OrdRaises(bits) == Len(bits) = 0 \/ Len(bits) > 8

\* variant of read_fixed_code whose reads leave self.idx where it was
read_fixed_code_in_place(c, bits, i) ==
    LET first_bits == read_bit(bits, i, c.exp)
        i1 == i + c.exp
        dec == LsbValue(first_bits)
        more_bits == first_bits \o read_bit(bits, i1, 1)
    IN  IF OrdRaises(first_bits) THEN [ok |-> FALSE, dec |-> 0, idx |-> i]
        ELSE IF dec < c.rem
        THEN IF OrdRaises(more_bits) THEN [ok |-> FALSE, dec |-> 0, idx |-> i]
             ELSE [ok |-> TRUE,
                   dec |-> LsbValue(more_bits) + 1 + (c.alphabet_first_num - 1),
                   idx |-> i]
        ELSE [ok |-> TRUE,
              dec |-> dec + c.rem + 1 + (c.alphabet_first_num - 1),
              idx |-> i]

\* the fixed-code branch of decode, from bits[i:]
read_fixed_code(c, bits, i) ==
    LET first_bits == read_bit(bits, i, c.exp)
        i1 == i + c.exp
        dec == LsbValue(first_bits)
        more_bits == first_bits \o read_bit(bits, i1, 1)
    IN  IF OrdRaises(first_bits) THEN [ok |-> FALSE, dec |-> 0, idx |-> i1]
        ELSE IF dec < c.rem
        THEN IF OrdRaises(more_bits) THEN [ok |-> FALSE, dec |-> 0, idx |-> i1 + 1]
             ELSE [ok |-> TRUE,
                   dec |-> LsbValue(more_bits) + 1 + (c.alphabet_first_num - 1),
                   idx |-> i1 + 1]
        ELSE [ok |-> TRUE,
              dec |-> dec + c.rem + 1 + (c.alphabet_first_num - 1),
              idx |-> i1]

\* one pass of the decoding loop up to code.append
decode_symbol(c, bits, i) ==
    LET leaf == descend(c.all_nodes, 1, bits, i)
        fixed == read_fixed_code(c, bits, leaf.idx)
        data == c.all_nodes[leaf.node].data
    IN  IF ~leaf.ok
        THEN [ok |-> FALSE, first_appearance |-> FALSE, dec |-> 0, idx |-> leaf.idx]
        ELSE IF data = NYT
        THEN [ok |-> fixed.ok, first_appearance |-> TRUE, dec |-> fixed.dec,
              idx |-> fixed.idx]
        ELSE [ok |-> TRUE, first_appearance |-> FALSE, dec |-> data.dec,
              idx |-> leaf.idx]

----------------------------------------------------------------------------
(* The codec specification: one encoder, its output packed into bytes, and  *)
(* a fresh decoder run on those bytes or on all but the last of them.       *)

\* alphabet ranges the codec is constructed with
Alphabets == {<<0, 255>>, <<0, 3>>, <<0, 2>>, <<1, 3>>, <<3, 3>>}

\* byte values the inputs are drawn from
SampleBytes == {0, 1, 3, 65}

Symbols(range) == {v \in SampleBytes : range[1] <= v /\ v <= range[2]}

RECURSIVE SeqsUpTo(_, _)
SeqsUpTo(S, n) ==
    IF n = 0 THEN {<<>>}
    ELSE LET shorter == SeqsUpTo(S, n - 1)
         IN  shorter \cup {Append(s, v) : s \in {t \in shorter : Len(t) = n - 1}, v \in S}

Init ==
    /\ alphabet_range \in Alphabets
    /\ dpcm \in BOOLEAN
    /\ byte_seq \in SeqsUpTo(Symbols(alphabet_range), MaxLen)
    /\ pc = "init"
    /\ encoder = NewCodec(byte_seq, alphabet_range, dpcm)
    /\ pos = 0
    /\ code = <<>>
    /\ stream = <<>>
    /\ truncated = FALSE
    /\ decoder = None
    /\ bit_seq = <<>>
    /\ idx = 0
    /\ out = <<>>
    /\ result = <<>>
    /\ fx = None
    /\ dp = None

\* encode(), up to the loop: the DPCM filter replaces self.byte_seq
EncodeStart ==
    /\ pc = "init"
    /\ encoder' = IF encoder.dpcm
                  THEN [encoder EXCEPT !.byte_seq = to_dpcm(encoder.byte_seq)]
                  ELSE encoder
    /\ code' = <<>>
    /\ pc' = "encoding"
    /\ UNCHANGED <<byte_seq, alphabet_range, dpcm, pos, stream, truncated,
                   decoder, bit_seq, idx, out, result, fx, dp>>

\* encode(), one pass of the loop over self.byte_seq
EncodeSymbol ==
    /\ pc = "encoding"
    /\ pos < Len(encoder.byte_seq)
    /\ LET symbol == encoder.byte_seq[pos + 1]
           fixed_code == to_fixed_code(encoder, symbol)
           found == search(encoder, BitsData(fixed_code))
       IN  IF FixedCodeRaises(encoder, symbol)
           THEN /\ pc' = "encode_error"
                /\ UNCHANGED <<encoder, pos, code>>
           ELSE /\ code' = IF found.first_appearance
                           THEN code \o found.code \o fixed_code
                           ELSE code \o found.code
                /\ encoder' = update(encoder, BitsData(fixed_code),
                                     found.first_appearance)
                /\ pos' = pos + 1
                /\ pc' = pc
    /\ UNCHANGED <<byte_seq, alphabet_range, dpcm, stream, truncated,
                   decoder, bit_seq, idx, out, result, fx, dp>>

\* encode(), after the loop: the 3-bit header is put in front of code
EncodeFinish ==
    /\ pc = "encoding"
    /\ pos = Len(encoder.byte_seq)
    /\ code' = header_bits(remaining_bits_length(Len(code))) \o code
    /\ pc' = "encoded"
    /\ UNCHANGED <<byte_seq, alphabet_range, dpcm, encoder, pos, stream,
                   truncated, decoder, bit_seq, idx, out, result, fx, dp>>

\* compress(): code.tofile(out_file)
Pack ==
    /\ pc = "encoded"
    /\ stream' = tobytes(code)
    /\ pc' = "packed"
    /\ UNCHANGED <<byte_seq, alphabet_range, dpcm, encoder, pos, code,
                   truncated, decoder, bit_seq, idx, out, result, fx, dp>>

\* the stream loses its last byte before it is decoded
Truncate ==
    /\ pc = "packed"
    /\ ~truncated
    /\ Len(stream) >= 1
    /\ stream' = SubSeq(stream, 1, Len(stream) - 1)
    /\ truncated' = TRUE
    /\ UNCHANGED <<byte_seq, alphabet_range, dpcm, pc, encoder, pos, code,
                   decoder, bit_seq, idx, out, result, fx, dp>>

\* extract(): a fresh codec on the bytes; decode() up to its loop
DecodeStart ==
    /\ pc = "packed"
    /\ decoder' = NewCodec(stream, alphabet_range, dpcm)
    /\ LET bits == frombytes(stream)
           header == read_bit(bits, 0, 3)
       IN  IF header = <<>>
           THEN /\ pc' = "decode_error"     \* int('', 2) raises ValueError
                /\ bit_seq' = bits
           ELSE /\ pc' = "decoding"
                /\ bit_seq' = del_tail(bits, MsbValue(header))
    /\ idx' = 3
    /\ out' = <<>>
    /\ UNCHANGED <<byte_seq, alphabet_range, dpcm, encoder, pos, code, stream,
                   truncated, result, fx, dp>>

\* decode(), one pass of the loop `while self.idx < bit_seq.length()`
DecodeSymbol ==
    /\ pc = "decoding"
    /\ idx < Len(bit_seq)
    /\ LET got == decode_symbol(decoder, bit_seq, idx)
       IN  /\ idx' = got.idx
           /\ IF got.ok
              THEN /\ out' = Append(out, got.dec)
                   /\ decoder' = update(decoder, IntData(got.dec),
                                        got.first_appearance)
                   /\ pc' = pc
              ELSE /\ pc' = "decode_error"
                   /\ UNCHANGED <<out, decoder>>
    /\ UNCHANGED <<byte_seq, alphabet_range, dpcm, encoder, pos, code, stream,
                   truncated, bit_seq, result, fx, dp>>

\* decode(), the loop's exit and the return value
DecodeFinish ==
    /\ pc = "decoding"
    /\ idx >= Len(bit_seq)
    /\ result' = IF decoder.dpcm THEN from_dpcm(out) ELSE out
    /\ pc' = "done"
    /\ UNCHANGED <<byte_seq, alphabet_range, dpcm, encoder, pos, code, stream,
                   truncated, decoder, bit_seq, idx, out, fx, dp>>

Next ==
    \/ EncodeStart
    \/ EncodeSymbol
    \/ EncodeFinish
    \/ Pack
    \/ Truncate
    \/ DecodeStart
    \/ DecodeSymbol
    \/ DecodeFinish

Spec == Init /\ [][Next]_vars

----------------------------------------------------------------------------
(* The fixed-code specification: to_fixed_code on one symbol, then the      *)
(* decoder's fixed-code branch on that code followed by further bits.       *)

FixedAlphabets ==
    {<<0, 0>>, <<0, 1>>, <<0, 2>>, <<0, 3>>, <<0, 4>>, <<0, 5>>, <<0, 6>>,
     <<0, 7>>, <<1, 3>>, <<5, 10>>, <<0, 255>>, <<0, 256>>}

Idle ==
    /\ byte_seq = <<>>
    /\ alphabet_range = <<0, 255>>
    /\ dpcm = FALSE
    /\ pc = "idle"
    /\ encoder = None
    /\ pos = 0
    /\ code = <<>>
    /\ stream = <<>>
    /\ truncated = FALSE
    /\ decoder = None
    /\ bit_seq = <<>>
    /\ idx = 0
    /\ out = <<>>
    /\ result = <<>>

codec_vars == <<byte_seq, alphabet_range, dpcm, pc, encoder, pos, code, stream,
                truncated, decoder, bit_seq, idx, out, result>>

FixedInit ==
    /\ Idle
    /\ dp = None
    /\ \E range \in FixedAlphabets :
       \E v \in range[1]..range[2] :
       \E tail \in SeqsUpTo({0, 1}, MaxTail) :
          fx = [stage |-> "symbol", range |-> range,
                codec |-> NewCodec(<<v>>, range, FALSE),
                v |-> v, tail |-> tail, code |-> <<>>, read |-> None]

FixedEncode ==
    /\ fx.stage = "symbol"
    /\ fx' = [fx EXCEPT !.stage = "coded", !.code = to_fixed_code(fx.codec, fx.v)]
    /\ UNCHANGED <<codec_vars, dp>>

FixedDecode ==
    /\ fx.stage = "coded"
    /\ fx' = [fx EXCEPT !.stage = "read",
                        !.read = read_fixed_code(fx.codec, fx.code \o fx.tail, 0)]
    /\ UNCHANGED <<codec_vars, dp>>

FixedNext == FixedEncode \/ FixedDecode

SpecFixed == FixedInit /\ [][FixedNext]_vars

----------------------------------------------------------------------------
(* The DPCM specification: to_dpcm on a byte sequence, then from_dpcm.      *)

DpcmBytes == {0, 1, 127, 128, 255}

DpcmInit ==
    /\ Idle
    /\ fx = None
    /\ \E x \in SeqsUpTo(DpcmBytes, MaxDpcmLen) :
          dp = [stage |-> "raw", x |-> x, y |-> <<>>, z |-> <<>>]

DpcmForward ==
    /\ dp.stage = "raw"
    /\ dp' = [dp EXCEPT !.stage = "filtered", !.y = to_dpcm(dp.x)]
    /\ UNCHANGED <<codec_vars, fx>>

DpcmInverse ==
    /\ dp.stage = "filtered"
    /\ dp' = [dp EXCEPT !.stage = "restored", !.z = from_dpcm(dp.y)]
    /\ UNCHANGED <<codec_vars, fx>>

DpcmNext == DpcmForward \/ DpcmInverse

SpecDpcm == DpcmInit /\ [][DpcmNext]_vars

----------------------------------------------------------------------------
(* Properties *)

Terminal == {"done", "decode_error", "encode_error"}

\* ceil(k / 8)
Ceil8(k) == CHOOSE m \in 0..(k + 1) : 8 * m >= k /\ 8 * (m - 1) < k

\* floor(log2(a)) for a >= 1
FloorLog2(a) == CHOOSE e \in 0..a : Pow2(e) <= a /\ a < Pow2(e + 1)

\* the residue of a modulo 256
Mod256(a) == CHOOSE d \in 0..255 : (a - d) % 256 = 0

IsPrefix(s, t) == Len(s) <= Len(t) /\ SubSeq(t, 1, Len(s)) = s

AllSame(s) == \A i \in 1..Len(s) : s[i] = s[1]

Ones(n) == [i \in 1..n |-> 1]

\* C1: round trip.  Whenever encode followed by decode of the untruncated
\* packed stream comes to an end, it ends with decode returning exactly the
\* input sequence (no error on the way, same symbols, order and length).
C1_RoundTrip ==
    (~truncated /\ pc \in Terminal) => (pc = "done" /\ result = byte_seq)

\* C2: truncation is detected.  For a non-empty input, decode of the packed
\* stream without its last byte never returns a decoded sequence.
C2_TruncationDetected ==
    (truncated /\ byte_seq # <<>>) => pc # "done"

\* the bit stream ends while the descent from the root has reached no leaf
MidDescent ==
    /\ pc = "decoding"
    /\ idx < Len(bit_seq)
    /\ ~descend(decoder.all_nodes, 1, bit_seq, idx).ok

\* the descent ends at the NYT leaf and fewer bits remain than its fixed code
\* needs: exp bits, or exp + 1 when the first exp bits read as a value < rem
MidFixedCode ==
    /\ pc = "decoding"
    /\ idx < Len(bit_seq)
    /\ LET leaf == descend(decoder.all_nodes, 1, bit_seq, idx)
           left == Len(bit_seq) - leaf.idx
           first_bits == read_bit(bit_seq, leaf.idx, decoder.exp)
       IN  /\ leaf.ok
           /\ decoder.all_nodes[leaf.node].data = NYT
           /\ \/ left < decoder.exp
              \/ LsbValue(first_bits) < decoder.rem /\ left < decoder.exp + 1

\* the header names more padding bits than the buffer holds
PaddingExceedsBuffer ==
    /\ pc = "packed"
    /\ MsbValue(read_bit(frombytes(stream), 0, 3)) > Len(frombytes(stream))

\* C3: decode fails, and appends no symbol, whenever the bits run out during
\* the descent or inside a fixed code, and fails when the padding value of the
\* header exceeds the bits of the buffer.
C3_ExhaustionFails ==
    [][/\ (MidDescent \/ MidFixedCode) => (pc' = "decode_error" /\ out' = out)
       /\ (PaddingExceedsBuffer /\ pc' # "packed") => pc' = "decode_error"]_vars

\* C4: the framing header.  The step that ends encode puts exactly 3 bits in
\* front of the payload C, holding p = 8 * ceil((|C| + 3) / 8) - (|C| + 3)
\* most significant bit first, with p in 0..7 and 3 + |C| + p a multiple of 8;
\* packing the result into bytes adds exactly p bits.
C4_Header ==
    [][/\ (pc = "encoding" /\ pc' = "encoded") =>
            LET n == Len(code)
                p == 8 * Ceil8(n + 3) - (n + 3)
            IN  /\ Len(code') = n + 3
                /\ SubSeq(code', 4, n + 3) = code
                /\ 4 * code'[1] + 2 * code'[2] + code'[3] = p
                /\ p \in 0..7
                /\ (3 + n + p) % 8 = 0
       /\ (pc = "encoded" /\ pc' = "packed") =>
            8 * Len(stream') - Len(code) = 4 * code[1] + 2 * code[2] + code[3]]_vars

\* a payload of 6 bits was framed with p = 7 and packed
C4_Witness ==
    /\ pc = "packed"
    /\ ~truncated
    /\ Len(code) = 9
    /\ SubSeq(code, 1, 3) = <<1, 1, 1>>
    /\ Len(stream) = 2

\* C5: empty input.  encode of the empty sequence yields the 3 header bits and
\* nothing else, they pack into at most one byte, and decode of that byte
\* enters its loop not once, raises no error and returns the empty sequence.
C5_EmptyInput ==
    (byte_seq = <<>> /\ ~truncated) =>
        /\ pc \in {"encoded", "packed", "decoding", "done"} => Len(code) = 3
        /\ pc \in {"packed", "decoding", "done"} => Len(stream) <= 1
        /\ pc = "decoding" => idx >= Len(bit_seq)
        /\ pc \notin {"decode_error", "encode_error"}
        /\ pc = "done" => result = <<>>

\* the empty sequence was encoded, packed and decoded
C5_Witness ==
    /\ byte_seq = <<>>
    /\ ~truncated
    /\ pc = "done"
    /\ Len(stream) = 1
    /\ result = <<>>

\* C6: the fixed code is uniquely decodable.  The decoder's fixed-code branch,
\* applied to to_fixed_code(v) followed by any further bits, raises nothing,
\* consumes exactly the bits of to_fixed_code(v) and recovers v; and the code
\* of no other symbol of the alphabet is a prefix of to_fixed_code(v).
C6_UniquelyDecodable ==
    /\ fx.stage = "read" =>
          /\ fx.read.ok
          /\ fx.read.dec = fx.v
          /\ fx.read.idx = Len(fx.code)
    /\ fx.stage = "coded" =>
          \A w \in (fx.range[1]..fx.range[2]) \ {fx.v} :
              ~IsPrefix(to_fixed_code(fx.codec, w), fx.code)

\* C7: fixed code length.  With A the alphabet size, e = floor(log2 A),
\* r = A - 2^e and i = v - L + 1, to_fixed_code(v) has exactly e + 1 bits when
\* i <= 2r and exactly e bits otherwise (so e bits throughout when r = 0).
C7_FixedCodeLength ==
    fx.stage \in {"coded", "read"} =>
        LET L == fx.range[1]
            A == fx.range[2] - fx.range[1] + 1
            e == FloorLog2(A)
            r == A - Pow2(e)
            i == fx.v - L + 1
        IN  Len(fx.code) = IF i <= 2 * r THEN e + 1 ELSE e

\* C8: all-same input.  When the symbols the coder has been given so far are
\* all one symbol k (the input itself when dpcm is off), the payload is the
\* fixed code of k followed by one bit 1 for every later k, so the finished
\* output has 3 + fixed_bits + (n - 1) bits before padding.
C8_AllSame ==
    (pc \in {"encoding", "encoded"} /\ pos >= 1
        /\ AllSame(SubSeq(encoder.byte_seq, 1, pos))) =>
        LET fixed_code == to_fixed_code(encoder, encoder.byte_seq[1])
            payload == IF pc = "encoding" THEN code
                       ELSE SubSeq(code, 4, Len(code))
        IN  /\ payload = fixed_code \o Ones(pos - 1)
            /\ pc = "encoded" => Len(code) = 3 + Len(fixed_code) + (pos - 1)

\* the same symbol three times with dpcm off, encoded
C8_Witness ==
    /\ pc = "encoded"
    /\ ~dpcm
    /\ Len(byte_seq) = 3
    /\ AllSame(byte_seq)
    /\ alphabet_range = <<0, 255>>
    /\ Len(code) = 3 + 8 + 2

\* scenario S3: [0x41] * 4 encoded with the default alphabet and dpcm off
S3 ==
    /\ alphabet_range = <<0, 255>>
    /\ ~dpcm
    /\ byte_seq = <<65, 65, 65, 65>>
    /\ pc = "encoded"

\* the leaf of symbol 0x41 in the encoder's tree (0 when there is none)
S3Leaf == find_node_data(encoder.all_nodes, BitsData(to_fixed_code(encoder, 65)))

\* C9 as stated: after S3 root.weight = 4, the leaf of 0x41 is the root's
\* right child and has weight 3, and the NYT leaf has weight 0.
C9_S3 ==
    S3 => /\ encoder.all_nodes[1].weight = 4
          /\ S3Leaf # 0
          /\ encoder.all_nodes[1].right = S3Leaf
          /\ encoder.all_nodes[S3Leaf].weight = 3
          /\ encoder.all_nodes[encoder.nyt].data = NYT
          /\ encoder.all_nodes[encoder.nyt].weight = 0

\* C9 amended: after S3 root.weight = 4, the leaf of 0x41 is the root's right
\* child and has weight 4, and the NYT leaf has weight 0.
C9_S3_Amended ==
    S3 => /\ encoder.all_nodes[1].weight = 4
          /\ S3Leaf # 0
          /\ encoder.all_nodes[1].right = S3Leaf
          /\ encoder.all_nodes[S3Leaf].weight = 4
          /\ encoder.all_nodes[encoder.nyt].data = NYT
          /\ encoder.all_nodes[encoder.nyt].weight = 0

\* scenario S3 has been run and its tree has the three nodes
C9_Witness == S3 /\ Len(encoder.all_nodes) = 3 /\ pos = 4

\* C10: the DPCM filter.  Forward: y[0] = x[0], y[i] = (x[i] - x[i-1]) mod 256.
\* Inverse: z[0] = y[0], z[i] = (z[i-1] + y[i]) mod 256.  The inverse of the
\* forward output is the input.
C10_Dpcm ==
    /\ dp.stage \in {"filtered", "restored"} =>
          /\ Len(dp.y) = Len(dp.x)
          /\ \A i \in 1..Len(dp.x) :
                dp.y[i] = IF i = 1 THEN dp.x[1] ELSE Mod256(dp.x[i] - dp.x[i - 1])
    /\ dp.stage = "restored" =>
          /\ Len(dp.z) = Len(dp.y)
          /\ \A i \in 1..Len(dp.y) :
                dp.z[i] = IF i = 1 THEN dp.y[1] ELSE Mod256(dp.z[i - 1] + dp.y[i])
          /\ dp.z = dp.x

\* a sequence whose differences wrap both ways was filtered and restored
C10_Witness ==
    /\ dp.stage = "restored"
    /\ dp.x = <<255, 0, 128>>
    /\ dp.y = <<255, 1, 128>>
    /\ dp.z = dp.x

----------------------------------------------------------------------------
(* the code tree after every update *)

\* the trees of the two codecs (the decoder's once extract has built it)
Trees ==
    {encoder.all_nodes} \cup (IF decoder = None THEN {} ELSE {decoder.all_nodes})

\* a node of smaller weight has the smaller number
WeightOrdered(nodes) ==
    \A x, y \in DOMAIN nodes :
        nodes[y].weight < nodes[x].weight => nodes[y].num < nodes[x].num

NonRoot(nodes) == {i \in DOMAIN nodes : nodes[i].parent # 0}

\* the position of node i among the non-root nodes listed by increasing num
NumRank(nodes, i) ==
    Cardinality({j \in NonRoot(nodes) : nodes[j].num <= nodes[i].num})

\* the non-root nodes at positions (1,2), (3,4), ... of that list are siblings
SiblingsPaired(nodes) ==
    \A i \in NonRoot(nodes) :
        NumRank(nodes, i) % 2 = 1 =>
            \E j \in NonRoot(nodes) :
                /\ NumRank(nodes, j) = NumRank(nodes, i) + 1
                /\ nodes[j].parent = nodes[i].parent

\* C11: sibling property.  After every update, for every pair of nodes x, y,
\* y.weight < x.weight implies y.num < x.num, and the non-root nodes listed by
\* increasing num are siblings at positions (1,2), (3,4), ...
C11_SiblingProperty ==
    \A t \in Trees : WeightOrdered(t) /\ SiblingsPaired(t)

\* every node has two children or none
TwoChildrenOrNone(nodes) ==
    \A i \in DOMAIN nodes : (nodes[i].left = 0) <=> (nodes[i].right = 0)

\* an internal node weighs what its two children weigh together
WeightIsChildrenSum(nodes) ==
    \A i \in DOMAIN nodes :
        nodes[i].left # 0 /\ nodes[i].right # 0 =>
            nodes[i].weight = nodes[nodes[i].left].weight
                              + nodes[nodes[i].right].weight

\* a child's parent link points at the node whose child slot holds it
LinksReciprocal(nodes) ==
    \A i \in DOMAIN nodes :
        /\ nodes[i].left # 0 => nodes[nodes[i].left].parent = i
        /\ nodes[i].right # 0 => nodes[nodes[i].right].parent = i
        /\ nodes[i].parent # 0 =>
              i \in {nodes[nodes[i].parent].left, nodes[nodes[i].parent].right}

\* C12: parent consistency.  After every update every internal node has
\* weight = left.weight + right.weight, every node has two children or none,
\* and the parent links are reciprocal; also after an update with an exchange,
\* where the incremented node must be the one above the processed leaf.
C12_ParentConsistency ==
    \A t \in Trees :
        TwoChildrenOrNone(t) /\ WeightIsChildrenSum(t) /\ LinksReciprocal(t)

\* C13: weight sum.  After every update, in the encoder and in the decoder,
\* root.weight is the number of symbols processed so far (0 initially).
C13_WeightSum ==
    /\ encoder.all_nodes[1].parent = 0
    /\ encoder.all_nodes[1].weight = pos
    /\ decoder # None =>
          /\ decoder.all_nodes[1].parent = 0
          /\ decoder.all_nodes[1].weight = Len(out)

\* both codecs have processed four symbols, two of them new, the decoder
\* from the encoder's whole stream
C13_Witness ==
    /\ pc = "decoding" /\ ~truncated
    /\ pos = 4 /\ Len(out) = 4
    /\ Len(encoder.all_nodes) >= 5 /\ Len(decoder.all_nodes) >= 5
    /\ decoder.all_nodes[1].weight = 4

\* the NYT node of codec c: the one node with data NYT, a leaf of weight 0,
\* of smaller num than every other node, and the node c.nyt refers to
UniqueNYT(c) ==
    LET nodes == c.all_nodes
    IN  /\ Cardinality({i \in DOMAIN nodes : nodes[i].data = NYT}) = 1
        /\ nodes[c.nyt].data = NYT
        /\ nodes[c.nyt].left = 0 /\ nodes[c.nyt].right = 0
        /\ nodes[c.nyt].weight = 0
        /\ \A i \in DOMAIN nodes : i # c.nyt => nodes[c.nyt].num < nodes[i].num

\* C14: unique NYT.  In every reachable tree state exactly one node has
\* data = NYT; it is a leaf, has weight 0, has the smallest num of all nodes,
\* and is the node the codec's nyt field refers to.
C14_UniqueNYT ==
    UniqueNYT(encoder) /\ (decoder # None => UniqueNYT(decoder))

\* the NYT leaf has been split three times in the encoder and twice or more
\* in the decoder, and nodes have been exchanged in between
C14_Witness ==
    /\ decoder # None
    /\ Len(encoder.all_nodes) = 7 /\ Len(decoder.all_nodes) >= 5
    /\ encoder.nyt = 7
    /\ ~C11_SiblingProperty

----------------------------------------------------------------------------
(* encoder and decoder side by side *)

\* the encoder's codec after it has consumed the first i symbols of its
\* (filtered) input: passes 1..i of the loop of encode on a fresh codec
RECURSIVE EncoderAfter(_)
EncoderAfter(i) ==
    IF i = 0
    THEN [NewCodec(byte_seq, alphabet_range, dpcm)
             EXCEPT !.byte_seq = encoder.byte_seq]
    ELSE LET c == EncoderAfter(i - 1)
             data == BitsData(to_fixed_code(c, c.byte_seq[i]))
         IN  update(c, data, search(c, data).first_appearance)

\* what the encoder keeps in a node where the decoder keeps d: the decoder
\* stores the symbol, the encoder the symbol's fixed code
AsEncoderData(c, d) ==
    IF d = NYT \/ d = None THEN d ELSE BitsData(to_fixed_code(c, d.dec))

\* same shape, same weight and num at every position, the same symbol at
\* every leaf, NYT at the same position
SameTree(enc, dec) ==
    /\ Len(enc.all_nodes) = Len(dec.all_nodes)
    /\ enc.nyt = dec.nyt
    /\ \A i \in DOMAIN enc.all_nodes :
          LET e == enc.all_nodes[i]
              d == dec.all_nodes[i]
          IN  /\ e.weight = d.weight /\ e.num = d.num
              /\ e.left = d.left /\ e.right = d.right /\ e.parent = d.parent
              /\ e.data = AsEncoderData(enc, d.data)

\* C15: encoder/decoder lockstep.  For every input x and every i <= |x|, the
\* decoder's tree after it has produced i symbols of encode(x) equals the
\* encoder's tree after it consumed the first i symbols.
C15_Lockstep ==
    (decoder # None /\ ~truncated /\ Len(out) <= Len(encoder.byte_seq)) =>
        SameTree(EncoderAfter(Len(out)), decoder)

\* the padding length p that decode reads from the first three bits
HeaderValue == MsbValue(Slice(frombytes(stream), 0, 3))

\* C16: padding removal in decode.  After reading p, decode discards exactly
\* the last p bits of the stream and no others, for every p in [0,7], p = 0
\* included; the bits from position 3 up to length - p are all decoded as
\* payload.
C16_PaddingRemoval ==
    LET bits == frombytes(stream)
    IN  /\ pc \in {"decoding", "done"} =>
              bit_seq = Slice(bits, 0, Len(bits) - HeaderValue)
        /\ pc = "done" => idx >= Len(bits) - HeaderValue

----------------------------------------------------------------------------
(* the calls of update and of exchange *)

\* the call update(data, first_appearance) that the next pass of the loop of
\* encode makes, if it makes one
EncoderUpdateCalls ==
    IF /\ pc = "encoding"
       /\ pos < Len(encoder.byte_seq)
       /\ ~FixedCodeRaises(encoder, encoder.byte_seq[pos + 1])
    THEN LET data == BitsData(to_fixed_code(encoder, encoder.byte_seq[pos + 1]))
         IN  {[codec |-> encoder, data |-> data,
               first_appearance |-> search(encoder, data).first_appearance]}
    ELSE {}

\* the same for the next pass of the loop of decode
DecoderUpdateCalls ==
    IF /\ pc = "decoding"
       /\ idx < Len(bit_seq)
       /\ decode_symbol(decoder, bit_seq, idx).ok
    THEN LET got == decode_symbol(decoder, bit_seq, idx)
         IN  {[codec |-> decoder, data |-> IntData(got.dec),
               first_appearance |-> got.first_appearance]}
    ELSE {}

UpdateCalls == EncoderUpdateCalls \cup DecoderUpdateCalls

\* the calls exchange(current_node, node_max_num_in_block) that the pending
\* update makes, each with the tree it is made on
ExchangeCalls ==
    UNION {
        LET passes == UpdatePasses(u.codec, u.data, u.first_appearance)
        IN  {[nodes |-> passes[k].nodes,
              current_node |-> passes[k].node,
              block_max |-> node_max_num_in_block(
                                passes[k].nodes,
                                passes[k].nodes[passes[k].node].weight)] :
                k \in {j \in DOMAIN passes :
                          NeedsExchange(passes[j].nodes, passes[j].node)}}
        : u \in UpdateCalls}

\* a is above i on the chain of parent links
RECURSIVE IsAncestor(_, _, _, _)
IsAncestor(nodes, a, i, fuel) ==
    IF nodes[i].parent = 0 \/ fuel = 0 THEN FALSE
    ELSE nodes[i].parent = a \/ IsAncestor(nodes, a, nodes[i].parent, fuel - 1)

\* the precondition of exchange(x, y): distinct nodes, neither an ancestor of
\* the other, neither the root
ExchangePrecondition(nodes, x, y) ==
    /\ x # y
    /\ nodes[x].parent # 0 /\ nodes[y].parent # 0
    /\ ~IsAncestor(nodes, x, y, Len(nodes))
    /\ ~IsAncestor(nodes, y, x, Len(nodes))

\* C17: exchange precondition always met.  Whenever update calls
\* exchange(current, b), the two nodes are distinct, neither is an ancestor of
\* the other and neither is the root; excluding b = current.parent is enough.
C17_ExchangePrecondition ==
    \A e \in ExchangeCalls :
        ExchangePrecondition(e.nodes, e.current_node, e.block_max)

----------------------------------------------------------------------------
(* node count and numbering *)

\* the alphabet size A of the run
AlphabetSize == Abs(alphabet_range[2] - alphabet_range[1]) + 1

\* C18: node bound and numbering.  After any sequence of symbols drawn from
\* [L, H] the tree has at most 2A - 1 nodes, the nums are pairwise distinct and
\* all >= 1, the root holds the largest num (2A - 1), and every node's num is
\* smaller than its parent's.
C18_NodeBound ==
    ~dpcm =>
        LET t == encoder.all_nodes
        IN  /\ Len(t) <= 2 * AlphabetSize - 1
            /\ \A i, j \in DOMAIN t : i # j => t[i].num # t[j].num
            /\ \A i \in DOMAIN t : t[i].num >= 1
            /\ t[1].num = 2 * AlphabetSize - 1
            /\ \A i \in DOMAIN t : t[i].num <= t[1].num
            /\ \A i \in DOMAIN t :
                  t[i].parent # 0 => t[i].num < t[t[i].parent].num

----------------------------------------------------------------------------
(* termination of decode *)

\* the walk of the call u of update ends at the root self.tree, by reaching
\* a node without parent and not by the bound on its passes
WalkReachesRoot(u) ==
    LET passes == UpdatePasses(u.codec, u.data, u.first_appearance)
        last == WalkPass(passes[Len(passes)].nodes, passes[Len(passes)].node)
    IN  passes # <<>> =>
            /\ Len(passes) <= Len(u.codec.all_nodes) + 2
            /\ last.node = 1
            /\ last.nodes[1].parent = 0

\* a step of decode at its loop: while bits are left, a pass that leaves the
\* bit buffer alone, whose update walk ends at the root, and that either moves
\* self.idx forward by at least one bit or ends in an error; once none is
\* left, the return
DecodeAdvances ==
    /\ (pc = "decoding" /\ idx < Len(bit_seq)) =>
          /\ \A u \in DecoderUpdateCalls : WalkReachesRoot(u)
          /\ bit_seq' = bit_seq
          /\ pc' \in {"decoding", "decode_error"}
          /\ idx' > idx \/ pc' = "decode_error"
    /\ (pc = "decoding" /\ idx >= Len(bit_seq)) => pc' = "done"

\* C19: decode terminates on every finite input byte sequence, valid or
\* corrupt: each pass of its loop advances the read index by at least one bit
\* or ends in an error, and each update walk reaches the root after finitely
\* many steps.  The bits left, Len(bit_seq) - idx, bound the passes to come.
C19_DecodeTerminates == [][DecodeAdvances]_vars

\* decode has returned from a stream cut short, after passes of its loop that
\* split the NYT node twice or more
C19_Witness ==
    /\ truncated
    /\ pc = "done"
    /\ Len(out) >= 2
    /\ Len(decoder.all_nodes) >= 5

====
